---- MODULE Spec2Model ----
(***************************************************************************)
(* A model of swcr (src/swcr/swcr.py): the source-code paginator that      *)
(* collects the lines of a directory tree's code files, splits them into   *)
(* front and back page groups of 52 non-blank lines and renders them as a  *)
(* PDF or a DOCX document; and of the Markdown converter that writes the   *)
(* user manual (src/generate_manual.py).                                    *)
(*                                                                          *)
(* A text (a line, a path, a comment prefix, a file extension) is a        *)
(* sequence of one-character strings, so that strip, startswith, endswith  *)
(* and slicing are computed character by character as Python does.         *)
(***************************************************************************)
EXTENDS Integers, Sequences, FiniteSets, TLC

VARIABLES
    pc,               \* position of the run: which operation has been applied
    \* the writer object
    writer,           \* "pdf" (PDFCodeWriter), "docx" (DOCXCodeWriter), "none"
    all_lines,        \* writer.all_lines
    comment_chars,    \* the comment prefixes handed to the writer
    max_front_pages,  \* writer.max_front_pages
    max_back_pages,   \* writer.max_back_pages
    \* pagination and rendering
    front_pages,      \* first component of split_lines_for_pages' result
    back_pages,       \* second component of split_lines_for_pages' result
    document,         \* what create_pdf / create_docx has put into the output
    \* a call of wrap_long_line, is_blank_line, is_comment_line
    arg_line,         \* the line argument
    arg_max_chars,    \* wrap_long_line's max_chars argument
    wrapped_lines,    \* wrap_long_line's result
    is_blank,         \* is_blank_line's result
    is_comment,       \* is_comment_line's result
    \* the file system and the finder
    tree,             \* the entries below the input directory
    exts,             \* CodeFinder.exts
    excludes,         \* the exclude prefixes
    files,            \* the file list find returns
    base_dir,         \* collect_code_lines' base_dir, None when absent
    \* the command-line run
    docx_available,   \* DOCX_AVAILABLE
    outfile,          \* --outfile
    printed,          \* error messages printed
    outputs,          \* output files written
    raised,           \* an exception left the operation
    returned,         \* main's return value, -1 before it returns
    exit_status,      \* the process's exit status, -1 while it runs
    \* the Markdown converter, create_manual_docx
    manual_lines,     \* lines, the Markdown file split at line ends
    manual_pos,       \* position of the loop's next line in manual_lines
    in_code_block,    \* inside a fenced code block
    current_paragraph_lines,  \* the pending lines of a regular paragraph
    manual_document   \* the headings and paragraphs added to the document

writerVars == <<writer, all_lines, comment_chars, max_front_pages, max_back_pages>>
pageVars   == <<front_pages, back_pages, document>>
callVars   == <<arg_line, arg_max_chars, wrapped_lines, is_blank, is_comment>>
fsVars     == <<tree, exts, excludes, files, base_dir>>
runVars    == <<docx_available, outfile, printed, outputs, raised, returned, exit_status>>

manualVars == <<manual_lines, manual_pos, in_code_block, current_paragraph_lines,
                manual_document>>

vars == <<pc, writerVars, pageVars, callVars, fsVars, runVars, manualVars>>

\* Python's None.
None == "None"

\* The parts of the state an operation under study does not involve.
NoPages == front_pages = <<>> /\ back_pages = <<>> /\ document = <<>>

NoCall ==
    /\ arg_line = <<>> /\ arg_max_chars = 0 /\ wrapped_lines = <<>>
    /\ is_blank = FALSE /\ is_comment = FALSE

NoFs ==
    /\ tree = <<>> /\ exts = <<>> /\ excludes = <<>> /\ files = <<>>
    /\ base_dir = None

NoRun ==
    /\ docx_available = TRUE /\ outfile = <<>> /\ printed = <<>> /\ outputs = {}
    /\ raised = FALSE /\ returned = -1 /\ exit_status = -1

NoManual ==
    /\ manual_lines = <<>> /\ manual_pos = 0 /\ in_code_block = FALSE
    /\ current_paragraph_lines = <<>> /\ manual_document = <<>>

----------------------------------------------------------------------------
(* Texts.                                                                   *)

\* Characters str.strip() removes (the model's alphabet holds three of them).
Whitespace == {" ", "\t", "\n"}

RECURSIVE lstrip(_)
lstrip(s) ==
    IF s = <<>> THEN s
    ELSE IF Head(s) \in Whitespace THEN lstrip(Tail(s)) ELSE s

RECURSIVE rstrip(_)
rstrip(s) ==
    IF s = <<>> THEN s
    ELSE IF s[Len(s)] \in Whitespace THEN rstrip(SubSeq(s, 1, Len(s) - 1)) ELSE s

strip(s) == rstrip(lstrip(s))

startswith(s, prefix) ==
    /\ Len(prefix) <= Len(s)
    /\ SubSeq(s, 1, Len(prefix)) = prefix

endswith(s, suffix) ==
    /\ Len(suffix) <= Len(s)
    /\ SubSeq(s, Len(s) - Len(suffix) + 1, Len(s)) = suffix

\* The lines of a list of page groups, in order.
RECURSIVE Flatten(_)
Flatten(pages) ==
    IF pages = <<>> THEN <<>> ELSE Head(pages) \o Flatten(Tail(pages))

DEFAULT_COMMENT_CHARS ==
    << <<"/", "*">>, <<"*">>, <<"*", "/">>, <<"/", "/">>, <<"#">> >>

----------------------------------------------------------------------------
(* Line classification, once per writer class.                              *)

\* A blank test that forgets to strip: only the empty line is blank.
is_blank_line_without_strip(line) == line = <<>>

PDFCodeWriter_is_blank_line(line) == ~(strip(line) # <<>>)

PDFCodeWriter_is_comment_line(line, cc) ==
    \E k \in 1..Len(cc) : startswith(lstrip(line), cc[k])

DOCXCodeWriter_is_blank_line(line) == ~(strip(line) # <<>>)

DOCXCodeWriter_is_comment_line(line, cc) ==
    \E k \in 1..Len(cc) : startswith(lstrip(line), cc[k])

is_blank_line(w, line) ==
    IF w = "pdf" THEN PDFCodeWriter_is_blank_line(line)
    ELSE DOCXCodeWriter_is_blank_line(line)

is_comment_line(w, line, cc) ==
    IF w = "pdf" THEN PDFCodeWriter_is_comment_line(line, cc)
    ELSE DOCXCodeWriter_is_comment_line(line, cc)

\* PDFCodeWriter counts lines that are neither blank nor comments,
\* DOCXCodeWriter counts the non-blank lines.  The loop over lines[lo..hi]
\* is summed by halves, which keeps the evaluation shallow.
RECURSIVE PDFCodeWriter_count_from(_, _, _, _)
PDFCodeWriter_count_from(lines, cc, lo, hi) ==
    IF lo > hi THEN 0
    ELSE IF lo = hi
    THEN (IF /\ ~PDFCodeWriter_is_blank_line(lines[lo])
             /\ ~PDFCodeWriter_is_comment_line(lines[lo], cc) THEN 1 ELSE 0)
    ELSE PDFCodeWriter_count_from(lines, cc, lo, (lo + hi) \div 2)
         + PDFCodeWriter_count_from(lines, cc, (lo + hi) \div 2 + 1, hi)

PDFCodeWriter_count_effective_lines(lines, cc) ==
    PDFCodeWriter_count_from(lines, cc, 1, Len(lines))

RECURSIVE DOCXCodeWriter_count_from(_, _, _, _)
DOCXCodeWriter_count_from(lines, cc, lo, hi) ==
    IF lo > hi THEN 0
    ELSE IF lo = hi
    THEN (IF ~DOCXCodeWriter_is_blank_line(lines[lo]) THEN 1 ELSE 0)
    ELSE DOCXCodeWriter_count_from(lines, cc, lo, (lo + hi) \div 2)
         + DOCXCodeWriter_count_from(lines, cc, (lo + hi) \div 2 + 1, hi)

DOCXCodeWriter_count_effective_lines(lines, cc) ==
    DOCXCodeWriter_count_from(lines, cc, 1, Len(lines))

count_effective_lines(w, lines, cc) ==
    IF w = "pdf" THEN PDFCodeWriter_count_effective_lines(lines, cc)
    ELSE DOCXCodeWriter_count_effective_lines(lines, cc)

----------------------------------------------------------------------------
(* CodeFinder.  The tree below the input directory is a list of entries,   *)
(* an entry naming its parent by position (0: the input directory).        *)

DEFAULT_EXTS ==
    << <<"c">>, <<"h">>, <<"p", "y">>, <<"j", "s">>, <<"j", "a", "v", "a">>,
       <<"c", "p", "p">>, <<"h", "p", "p">> >>

\* The absolute path main hands to find.
INDIR == <<"/", "r">>

\* abspath(entry.path): the directory's path, a slash, the entry's name.
RECURSIVE Path(_, _)
Path(t, n) ==
    IF n = 0 THEN INDIR
    ELSE Path(t, t[n].parent) \o <<"/">> \o t[n].name

\* self.exts = exts if exts else DEFAULT_EXTS
CodeFinder_init(exts_) == IF exts_ # <<>> THEN exts_ ELSE DEFAULT_EXTS

\* A finder that takes no file for hidden.
is_hidden_file_never(file) == FALSE

is_hidden_file(file) == file[1] = "."

should_be_excluded(file, excludes_) ==
    IF excludes_ = <<>> THEN FALSE
    ELSE \E k \in 1..Len(excludes_) : startswith(file, excludes_[k])

is_code(exts_, file) == \E k \in 1..Len(exts_) : endswith(file, exts_[k])

\* scandir(dir): the entries of the directory at position d.
scandir(t, d) ==
    SelectSeq([k \in 1..Len(t) |-> k], LAMBDA k : t[k].parent = d)

RECURSIVE find(_, _, _, _)
RECURSIVE FindEntries(_, _, _, _)
FindEntries(t, exts_, entries, excludes_) ==
    IF entries = <<>> THEN <<>>
    ELSE LET n          == Head(entries)
             entry_name == t[n].name
             entry_path == Path(t, n)
             rest       == FindEntries(t, exts_, Tail(entries), excludes_)
         IN  IF is_hidden_file(entry_name) \/ should_be_excluded(entry_path, excludes_)
             THEN rest
             ELSE IF t[n].is_file
                  THEN (IF is_code(exts_, entry_name) THEN <<entry_path>> ELSE <<>>)
                       \o rest
                  ELSE find(t, exts_, n, excludes_) \o rest

find(t, exts_, d, excludes_) == FindEntries(t, exts_, scandir(t, d), excludes_)

----------------------------------------------------------------------------
(* wrap_long_line, once per writer class.                                   *)

\* A loop that forgets the rest of the line left after the last full
\* fragment.
RECURSIVE WrapLoop_drops_rest(_, _, _)
WrapLoop_drops_rest(line, n, wrapped_lines_) ==
    IF Len(line) > n
    THEN WrapLoop_drops_rest(SubSeq(line, n + 1, Len(line)), n,
                             Append(wrapped_lines_, SubSeq(line, 1, n)))
    ELSE wrapped_lines_

\* while len(line) > max_chars: ...; if line: wrapped_lines.append(line)
RECURSIVE WrapLoop(_, _, _)
WrapLoop(line, n, wrapped_lines_) ==
    IF Len(line) > n
    THEN WrapLoop(SubSeq(line, n + 1, Len(line)), n,
                  Append(wrapped_lines_, SubSeq(line, 1, n)))
    ELSE IF line # <<>> THEN Append(wrapped_lines_, line)
         ELSE wrapped_lines_

PDFCodeWriter_wrap_long_line(line, n) ==
    IF Len(line) <= n THEN <<line>> ELSE WrapLoop(line, n, <<>>)

DOCXCodeWriter_wrap_long_line(line, n) ==
    IF Len(line) <= n THEN <<line>> ELSE WrapLoop(line, n, <<>>)

wrap_long_line(w, line, n) ==
    IF w = "pdf" THEN PDFCodeWriter_wrap_long_line(line, n)
    ELSE DOCXCodeWriter_wrap_long_line(line, n)

----------------------------------------------------------------------------
(* collect_code_lines.  A file entry carries what reading it gives: read   *)
(* is "ok" (content: its lines), "open_fails" (open() raises) or           *)
(* "read_fails" (the file opens for check_file_encoding, and codecs.open   *)
(* or the decoding raises later; content: the lines read before that).     *)

FILE_HEADER  == <<"#", " ", "F", "i", "l", "e", ":", " ">>
ERROR_HEADER == <<"#", " ", "E", "r", "r", "o", "r", " ", "r", "e", "a", "d", "i", "n", "g",
                  " ", "f", "i", "l", "e", ":", " ">>

\* str(e) of the exception caught.
ErrorText == <<"e">>

\* wrap_long_line(line, max_chars=90)
WRAP_MAX_CHARS == 90

EntryOf(t, path) == t[CHOOSE n \in 1..Len(t) : Path(t, n) = path]

\* relpath(file, base_dir) of a file below base_dir; without a base_dir the
\* path itself.
relative_path(file, base) ==
    IF base # None THEN SubSeq(file, Len(base) + 2, Len(file)) ELSE file

\* check_file_encoding opens the file outside any try block.
check_file_encoding_raises(entry) == entry.read = "open_fails"

\* for line in fp: line = line.rstrip(); all_lines.extend(wrap_long_line(line))
RECURSIVE ReadLines(_, _, _)
ReadLines(w, content, lines) ==
    IF content = <<>> THEN lines
    ELSE ReadLines(w, Tail(content),
                   lines \o wrap_long_line(w, rstrip(Head(content)), WRAP_MAX_CHARS))

\* The loop over files, from the k-th file on; raised tells that an
\* exception left the loop.
RECURSIVE CollectLoop(_, _, _, _, _, _)
CollectLoop(w, t, files_, k, base, lines) ==
    IF k > Len(files_) THEN [all_lines |-> lines, raised |-> FALSE]
    ELSE LET file  == files_[k]
             entry == EntryOf(t, file)
         IN  IF check_file_encoding_raises(entry)
             THEN [all_lines |-> lines, raised |-> TRUE]
             ELSE LET with_header == Append(lines, FILE_HEADER \o relative_path(file, base))
                      with_lines  == ReadLines(w, entry.content, with_header)
                  IN  IF entry.read = "ok"
                      THEN CollectLoop(w, t, files_, k + 1, base, with_lines)
                      ELSE CollectLoop(w, t, files_, k + 1, base,
                                       Append(with_lines, ERROR_HEADER \o ErrorText))

collect_code_lines(w, t, files_, base, lines) ==
    CollectLoop(w, t, files_, 1, base, lines)

----------------------------------------------------------------------------
(* split_lines_for_pages.  Indices i, j, start_pos are Python's (from 0). *)

lines_per_page == 52

\* A front loop that runs one page too long (<= for <).
FrontCond_one_too_many(i, n, page_count, maxf) == i < n /\ page_count <= maxf

\* while i < len(self.all_lines) and page_count < self.max_front_pages
FrontCond(i, n, page_count, maxf) == i < n /\ page_count < maxf

\* A slice that starts one line early, all_lines[i-1:].
remaining_from_one_early(lines, i) ==
    IF i = 0 THEN SubSeq(lines, Len(lines), Len(lines))
    ELSE SubSeq(lines, i, Len(lines))

\* remaining_lines = self.all_lines[i:]
remaining_from(lines, i) == SubSeq(lines, i + 1, Len(lines))

\* back_lines = remaining_lines[start_pos:]
back_lines_from(remaining_lines, start_pos) ==
    SubSeq(remaining_lines, start_pos + 1, Len(remaining_lines))

\* A loop is modelled by its body, a step on the record of the loop's
\* variables, and by the passes through it: the loop condition is tested
\* before each pass, and n bounds the passes that are left.  The passes are
\* composed by halves, which keeps the evaluation shallow.

\* The front loop's variables before the loop.
FrontStart ==
    [i |-> 0, current_page_lines |-> <<>>, current_effective_count |-> 0,
     front_pages |-> <<>>, page_count |-> 0]

\* One pass through the body of the front loop.
FrontStep(w, lines, st) ==
    LET line == lines[st.i + 1]
        cur  == Append(st.current_page_lines, line)
        cnt  == IF ~is_blank_line(w, line)
                THEN st.current_effective_count + 1
                ELSE st.current_effective_count
    IN  IF cnt >= lines_per_page \/ st.i = Len(lines) - 1
        THEN [i |-> st.i + 1, current_page_lines |-> <<>>,
              current_effective_count |-> 0,
              front_pages |-> Append(st.front_pages, cur),
              page_count |-> st.page_count + 1]
        ELSE [i |-> st.i + 1, current_page_lines |-> cur,
              current_effective_count |-> cnt,
              front_pages |-> st.front_pages,
              page_count |-> st.page_count]

RECURSIVE FrontSteps(_, _, _, _, _)
FrontSteps(w, lines, maxf, n, st) ==
    IF n = 0 \/ ~FrontCond(st.i, Len(lines), st.page_count, maxf) THEN st
    ELSE IF n = 1 THEN FrontStep(w, lines, st)
    ELSE FrontSteps(w, lines, maxf, n - (n \div 2),
                    FrontSteps(w, lines, maxf, n \div 2, st))

\* The front loop: the variables it ends with, i and front_pages among them.
FrontLoop(w, lines, maxf) == FrontSteps(w, lines, maxf, Len(lines), FrontStart)

\* The backward scan for j in range(len(remaining_lines) - 1, -1, -1), with
\* start_pos = len(remaining_lines) - 1 before it; broke tells that the
\* break has been taken.
ScanStart(remaining_lines) ==
    [j |-> Len(remaining_lines) - 1, effective_count |-> 0,
     start_pos |-> Len(remaining_lines) - 1, broke |-> FALSE]

\* A backward scan whose cut is one line late.
ScanStep_cuts_one_late(w, remaining_lines, target_effective_lines, st) ==
    LET cnt == IF ~is_blank_line(w, remaining_lines[st.j + 1])
               THEN st.effective_count + 1 ELSE st.effective_count
    IN  IF cnt >= target_effective_lines
        THEN [j |-> st.j, effective_count |-> cnt, start_pos |-> st.j + 1,
              broke |-> TRUE]
        ELSE [j |-> st.j - 1, effective_count |-> cnt,
              start_pos |-> st.start_pos, broke |-> FALSE]

ScanStep(w, remaining_lines, target_effective_lines, st) ==
    LET cnt == IF ~is_blank_line(w, remaining_lines[st.j + 1])
               THEN st.effective_count + 1 ELSE st.effective_count
    IN  IF cnt >= target_effective_lines
        THEN [j |-> st.j, effective_count |-> cnt, start_pos |-> st.j,
              broke |-> TRUE]
        ELSE [j |-> st.j - 1, effective_count |-> cnt,
              start_pos |-> st.start_pos, broke |-> FALSE]

RECURSIVE ScanSteps(_, _, _, _, _)
ScanSteps(w, remaining_lines, target_effective_lines, n, st) ==
    IF n = 0 \/ st.broke \/ st.j < 0 THEN st
    ELSE IF n = 1 THEN ScanStep(w, remaining_lines, target_effective_lines, st)
    ELSE ScanSteps(w, remaining_lines, target_effective_lines, n - (n \div 2),
                   ScanSteps(w, remaining_lines, target_effective_lines, n \div 2, st))

\* The start_pos the scan ends with.
ScanBack(w, remaining_lines, target_effective_lines) ==
    ScanSteps(w, remaining_lines, target_effective_lines, Len(remaining_lines),
              ScanStart(remaining_lines)).start_pos

\* The back loop, for line in lines (the same in both branches): a page is
\* closed when it holds lines_per_page non-blank lines.  k is the position
\* of the next line.
BackStart ==
    [k |-> 1, current_page_lines |-> <<>>, current_effective_count |-> 0,
     back_pages |-> <<>>]

\* A back loop body that closes a page one non-blank line late.
BackStep_closes_late(w, lines, st) ==
    LET line == lines[st.k]
        cur  == Append(st.current_page_lines, line)
        cnt  == IF ~is_blank_line(w, line)
                THEN st.current_effective_count + 1
                ELSE st.current_effective_count
    IN  IF cnt > lines_per_page
        THEN [k |-> st.k + 1, current_page_lines |-> <<>>,
              current_effective_count |-> 0,
              back_pages |-> Append(st.back_pages, cur)]
        ELSE [k |-> st.k + 1, current_page_lines |-> cur,
              current_effective_count |-> cnt,
              back_pages |-> st.back_pages]

BackStep(w, lines, st) ==
    LET line == lines[st.k]
        cur  == Append(st.current_page_lines, line)
        cnt  == IF ~is_blank_line(w, line)
                THEN st.current_effective_count + 1
                ELSE st.current_effective_count
    IN  IF cnt >= lines_per_page
        THEN [k |-> st.k + 1, current_page_lines |-> <<>>,
              current_effective_count |-> 0,
              back_pages |-> Append(st.back_pages, cur)]
        ELSE [k |-> st.k + 1, current_page_lines |-> cur,
              current_effective_count |-> cnt,
              back_pages |-> st.back_pages]

RECURSIVE BackSteps(_, _, _, _)
BackSteps(w, lines, n, st) ==
    IF n = 0 \/ st.k > Len(lines) THEN st
    ELSE IF n = 1 THEN BackStep(w, lines, st)
    ELSE BackSteps(w, lines, n - (n \div 2), BackSteps(w, lines, n \div 2, st))

\* A back loop that makes a last page of the left-over lines even when
\* there are none.
BackLoop_appends_empty_rest(w, lines) ==
    Append(BackSteps(w, lines, Len(lines), BackStart).back_pages,
           BackSteps(w, lines, Len(lines), BackStart).current_page_lines)

\* The back loop and what follows it: the lines left over after the last
\* closed page become a last page.
BackLoop(w, lines) ==
    LET st == BackSteps(w, lines, Len(lines), BackStart)
    IN  IF st.current_page_lines # <<>>
        THEN Append(st.back_pages, st.current_page_lines)
        ELSE st.back_pages

split_lines_for_pages(w, lines, cc, maxf, maxb) ==
    IF lines = <<>> THEN [front_pages |-> <<>>, back_pages |-> <<>>]
    ELSE
    LET front == FrontLoop(w, lines, maxf)
        i     == front.i
    IN  IF i < Len(lines)
        THEN LET remaining_lines     == remaining_from(lines, i)
                 remaining_effective == count_effective_lines(w, remaining_lines, cc)
             IN  IF remaining_effective > maxb * lines_per_page
                 THEN LET start_pos  == ScanBack(w, remaining_lines, maxb * lines_per_page)
                          back_lines == back_lines_from(remaining_lines, start_pos)
                      IN  [front_pages |-> front.front_pages,
                           back_pages  |-> BackLoop(w, back_lines)]
                 ELSE [front_pages |-> front.front_pages,
                       back_pages  |-> BackLoop(w, remaining_lines)]
        ELSE [front_pages |-> front.front_pages, back_pages |-> <<>>]

----------------------------------------------------------------------------
(* create_pdf / create_docx: the drawing operations, in order.             *)

\* enumerate(pages, start): one draw_page + showPage per page group.
\* PDFCodeWriter lengths, in hundredths of a point: page_height is the
\* height of an A4 page, font_size the default of --font_size.
page_height   == 84189
margin_top    == 6000
margin_bottom == 4000
font_size     == 9
line_height   == (font_size + 1) * 100

\* draw_page: the loop over the lines of a page group.  A line is drawn at
\* y_position, which then moves down by line_height; the loop is left at
\* the first line whose y_position is below the bottom margin.
DrawStart ==
    [k |-> 1, y_position |-> page_height - margin_top, drawn |-> <<>>,
     broke |-> FALSE]

DrawStep(lines, st) ==
    IF st.y_position < margin_bottom
    THEN [k |-> st.k, y_position |-> st.y_position, drawn |-> st.drawn,
          broke |-> TRUE]
    ELSE [k |-> st.k + 1, y_position |-> st.y_position - line_height,
          drawn |-> Append(st.drawn, lines[st.k]), broke |-> FALSE]

RECURSIVE DrawSteps(_, _, _)
DrawSteps(lines, n, st) ==
    IF n = 0 \/ st.broke \/ st.k > Len(lines) THEN st
    ELSE IF n = 1 THEN DrawStep(lines, st)
    ELSE DrawSteps(lines, n - (n \div 2), DrawSteps(lines, n \div 2, st))

\* The lines draw_page puts on the canvas.
draw_page(lines) == DrawSteps(lines, Len(lines), DrawStart).drawn

\* The runs add_page_to_doc adds for the lines of a page group: the line,
\* or one space for a blank line.
add_page_to_doc(lines) ==
    [j \in 1..Len(lines) |-> IF strip(lines[j]) # <<>> THEN lines[j] ELSE <<" ">>]

\* A page numbering that starts one too high.
PdfPages_numbers_from_next(pages, start) ==
    [k \in 1..Len(pages) |->
        [op |-> "page", page_num |-> start + k, lines |-> draw_page(pages[k])]]

PdfPages(pages, start) ==
    [k \in 1..Len(pages) |->
        [op |-> "page", page_num |-> start + k - 1, lines |-> draw_page(pages[k])]]

create_pdf(front, back) ==
    PdfPages(front, 1)
    \o (IF back # <<>>
        THEN << [op |-> "ellipsis", page_num |-> Len(front) + 1, lines |-> <<>>] >>
             \o PdfPages(back, Len(front) + 2)
        ELSE <<>>)

Break == [op |-> "break", page_num |-> 0, lines |-> <<>>]

\* add_page_to_doc per front page, a page break between two front pages.
RECURSIVE DocxFront(_, _)
DocxFront(front, k) ==
    IF k > Len(front) THEN <<>>
    ELSE << [op |-> "page", page_num |-> k, lines |-> add_page_to_doc(front[k])] >>
         \o (IF k < Len(front) THEN <<Break>> ELSE <<>>)
         \o DocxFront(front, k + 1)

\* page break + add_page_to_doc per back page.
RECURSIVE DocxBack(_, _, _)
DocxBack(back, k, start) ==
    IF k > Len(back) THEN <<>>
    ELSE << Break, [op |-> "page", page_num |-> start + k - 1,
                     lines |-> add_page_to_doc(back[k])] >>
         \o DocxBack(back, k + 1, start)

create_docx(front, back) ==
    DocxFront(front, 1)
    \o (IF back # <<>>
        THEN << Break, [op |-> "ellipsis", page_num |-> Len(front) + 1, lines |-> <<>>] >>
             \o DocxBack(back, 1, Len(front) + 2)
        ELSE <<>>)

----------------------------------------------------------------------------
(* The pagination run: a writer holding all_lines is split, then rendered. *)

MaxRuns  == 3
MaxFront == 2
MaxBack  == 1

CodeLine    == <<"x">>
BlankLine   == <<>>
CommentLine == <<"#">>
LineKinds   == {CodeLine, BlankLine, CommentLine}

\* all_lines is drawn as up to MaxRuns runs of equal lines, a run being one
\* line or a page's worth of lines, so that a page boundary falls inside a
\* run, at its end, and before blank lines.
RunLens == {1, lines_per_page}

Run(line, n) == [k \in 1..n |-> line]

RECURSIVE LineLists(_)
LineLists(n) ==
    IF n = 0 THEN { <<>> }
    ELSE LET shorter == LineLists(n - 1)
         IN  shorter \cup
             { Run(l[1], l[2]) \o s : l \in LineKinds \X RunLens, s \in shorter }

InitSplit ==
    /\ NoManual
    /\ pc = "collected"
    /\ writer \in {"pdf", "docx"}
    /\ all_lines \in LineLists(MaxRuns)
    /\ comment_chars = DEFAULT_COMMENT_CHARS
    /\ max_front_pages \in 0..MaxFront
    /\ max_back_pages \in 0..MaxBack
    /\ NoPages /\ NoCall /\ NoFs /\ NoRun

Split ==
    /\ pc = "collected"
    /\ LET r == split_lines_for_pages(writer, all_lines, comment_chars,
                                      max_front_pages, max_back_pages)
       IN  /\ front_pages' = r.front_pages
           /\ back_pages' = r.back_pages
    /\ pc' = "split"
    /\ UNCHANGED <<manualVars, writerVars, document, callVars, fsVars, runVars>>

Create ==
    /\ pc = "split"
    /\ document' = IF writer = "pdf" THEN create_pdf(front_pages, back_pages)
                   ELSE create_docx(front_pages, back_pages)
    /\ pc' = "created"
    /\ UNCHANGED <<manualVars, writerVars, front_pages, back_pages, callVars, fsVars, runVars>>

NextSplit == Split \/ Create

SpecSplit == InitSplit /\ [][NextSplit]_vars

----------------------------------------------------------------------------
(* Properties of the pagination run.                                        *)

Splitted == pc \in {"split", "created"}

FrontLines == Flatten(front_pages)
BackLines  == Flatten(back_pages)

IsPrefix(s, t) == Len(s) <= Len(t) /\ SubSeq(t, 1, Len(s)) = s
IsSuffix(s, t) == Len(s) <= Len(t) /\ SubSeq(t, Len(t) - Len(s) + 1, Len(t)) = s

\* A line that holds nothing but whitespace.
OnlyWhitespace(line) == \A k \in 1..Len(line) : line[k] \in Whitespace

NonBlankCount(lines) == Cardinality({k \in 1..Len(lines) : ~OnlyWhitespace(lines[k])})

\* Some line of all_lines is in no page group.
Elided == Len(FrontLines) + Len(BackLines) < Len(all_lines)

\* C1: the front page groups concatenate to a prefix of all_lines, the back
\* page groups to a suffix, and the two do not overlap: a line outside the
\* elided middle is in exactly one page group, in its original position.
C1_PrefixSuffixDisjoint ==
    Splitted =>
        /\ IsPrefix(FrontLines, all_lines)
        /\ IsSuffix(BackLines, all_lines)
        /\ Len(FrontLines) + Len(BackLines) <= Len(all_lines)

\* A split that kept front pages and back pages of different content and
\* elided lines in between.
C1_Witness ==
    /\ pc = "split"
    /\ front_pages # <<>> /\ back_pages # <<>>
    /\ Elided
    /\ FrontLines # BackLines
    /\ \E k \in 1..Len(BackLines) : BackLines[k] # BackLines[1]

\* The page groups the document holds (page breaks are not pages).
PagesEmitted == Cardinality({k \in 1..Len(document) : document[k].op # "break"})

\* C2: the document holds front-page-count pages when no line was elided,
\* and front-page-count + 1 + back-page-count pages when some line was.
C2_PageCountByElision ==
    pc = "created" =>
        PagesEmitted = IF Elided THEN Len(front_pages) + 1 + Len(back_pages)
                       ELSE Len(front_pages)

\* C5: there are never more back page groups than max_back_pages.
C5_BackPagesWithinCap ==
    Splitted => Len(back_pages) <= max_back_pages

\* C6: there are never more front page groups than max_front_pages, and
\* the front pages are the first lines of all_lines.
C6_FrontPagesWithinCap ==
    Splitted =>
        /\ Len(front_pages) <= max_front_pages
        /\ IsPrefix(FrontLines, all_lines)

\* The cap is what ended the front loop: it is reached, with lines left.
C6_Witness ==
    /\ pc = "split"
    /\ max_front_pages >= 1
    /\ Len(front_pages) = max_front_pages
    /\ Len(FrontLines) < Len(all_lines)

\* C9: a corpus of at most max_front_pages x 52 non-blank lines goes into
\* the front pages whole: no back pages, no ellipsis page.
C9_SmallCorpusAllFront ==
    (/\ Splitted
     /\ max_front_pages >= 1
     /\ NonBlankCount(all_lines) <= max_front_pages * lines_per_page)
    =>  /\ FrontLines = all_lines
        /\ back_pages = <<>>
        /\ \A k \in 1..Len(document) : document[k].op # "ellipsis"

\* The lines after the front pages, remaining_lines of the code.
RemainingLines == SubSeq(all_lines, Len(FrontLines) + 1, Len(all_lines))

\* The lines between the front pages and the back pages.
ElidedLines ==
    SubSeq(all_lines, Len(FrontLines) + 1, Len(all_lines) - Len(BackLines))

\* C11: every page group, front or back, holds at least 50 non-blank lines.
C11_EveryPageGroupFull ==
    Splitted =>
        /\ \A k \in 1..Len(front_pages) : NonBlankCount(front_pages[k]) >= 50
        /\ \A k \in 1..Len(back_pages) : NonBlankCount(back_pages[k]) >= 50

\* C12: every page group of front_pages and back_pages is a non-empty list
\* of lines, and an empty all_lines gives no page group at all.
C12_PageGroupsNonEmpty ==
    Splitted =>
        /\ \A k \in 1..Len(front_pages) : front_pages[k] # <<>>
        /\ \A k \in 1..Len(back_pages) : back_pages[k] # <<>>
        /\ all_lines = <<>> => front_pages = <<>> /\ back_pages = <<>>

\* A split whose back lines end exactly where a page closes, so that no
\* line is left over for a last page.
C12_Witness ==
    /\ pc = "split"
    /\ front_pages # <<>> /\ back_pages # <<>>
    /\ NonBlankCount(back_pages[Len(back_pages)]) = lines_per_page
    /\ ~OnlyWhitespace(all_lines[Len(all_lines)])

\* C13: no page group holds more than 52 non-blank lines, and every page
\* group but the last front page and the last back page holds exactly 52 of
\* them and ends with a non-blank line.
C13_PageClosedAt52 ==
    Splitted =>
        /\ \A k \in 1..Len(front_pages) :
               NonBlankCount(front_pages[k]) <= lines_per_page
        /\ \A k \in 1..Len(back_pages) :
               NonBlankCount(back_pages[k]) <= lines_per_page
        /\ \A k \in 1..(Len(front_pages) - 1) :
               /\ NonBlankCount(front_pages[k]) = lines_per_page
               /\ ~OnlyWhitespace(front_pages[k][Len(front_pages[k])])
        /\ \A k \in 1..(Len(back_pages) - 1) :
               /\ NonBlankCount(back_pages[k]) = lines_per_page
               /\ ~OnlyWhitespace(back_pages[k][Len(back_pages[k])])

\* Two front pages, the first of them closed at its 52nd non-blank line
\* with a blank line among its lines, and back pages after them.
C13_Witness ==
    /\ pc = "split"
    /\ Len(front_pages) >= 2
    /\ Len(front_pages[1]) > lines_per_page
    /\ NonBlankCount(front_pages[1]) = lines_per_page

\* C14: when lines remain after the front pages and hold more effective
\* lines than max_back_pages x 52 (max_back_pages >= 1), the back pages
\* together are the shortest suffix of all_lines that holds
\* max_back_pages x 52 non-blank lines; the suffix starts after the last
\* front-page line and a non-blank line in between is elided.
C14_BackwardScanCut ==
    (/\ Splitted
     /\ max_back_pages >= 1
     /\ Len(FrontLines) < Len(all_lines)
     /\ count_effective_lines(writer, RemainingLines, comment_chars)
            > max_back_pages * lines_per_page)
    =>  /\ IsSuffix(BackLines, all_lines)
        /\ NonBlankCount(BackLines) = max_back_pages * lines_per_page
        /\ BackLines # <<>>
        /\ ~OnlyWhitespace(BackLines[1])
        /\ Len(FrontLines) + Len(BackLines) < Len(all_lines)
        /\ NonBlankCount(ElidedLines) >= 1

\* The backward scan has cut the lines left after a front page: the back
\* pages hold fewer lines than were left.
C14_Witness ==
    /\ pc = "split"
    /\ max_back_pages >= 1
    /\ front_pages # <<>>
    /\ Len(FrontLines) < Len(all_lines)
    /\ count_effective_lines(writer, RemainingLines, comment_chars)
           > max_back_pages * lines_per_page
    /\ back_pages # <<>>
    /\ Len(BackLines) < Len(RemainingLines)

\* The pages of a rendered document, page breaks left out.
IsPage(entry) == entry.op # "break"
PagesOf(doc) == SelectSeq(doc, IsPage)

\* The page numbers of a rendered document, in the order of its pages.
PageNumbers(doc) == [k \in 1..Len(PagesOf(doc)) |-> PagesOf(doc)[k].page_num]

\* The entry shows the page group: the lines drawn are its first lines, and
\* a blank line may show as one space.
Renders(entry, page) ==
    /\ entry.op = "page"
    /\ Len(entry.lines) <= Len(page)
    /\ \A j \in 1..Len(entry.lines) :
           \/ entry.lines[j] = page[j]
           \/ OnlyWhitespace(page[j]) /\ entry.lines[j] = <<" ">>

\* C15: the pages of the document are numbered 1, 2, 3, ... in the order
\* they are emitted: the front pages 1..F in list order, then, exactly when
\* back_pages is non-empty, one ellipsis page F+1 and the back pages
\* F+2..F+1+B in list order; create_pdf and create_docx give the same
\* numbers.
C15_PagesNumberedInOrder ==
    pc = "created" =>
        LET F == Len(front_pages)
            B == Len(back_pages)
            pages == PagesOf(document)
        IN  /\ Len(pages) = IF B > 0 THEN F + 1 + B ELSE F
            /\ \A k \in 1..Len(pages) : pages[k].page_num = k
            /\ \A k \in 1..F : Renders(pages[k], front_pages[k])
            /\ B > 0 => pages[F + 1].op = "ellipsis"
            /\ \A k \in 1..B : Renders(pages[F + 1 + k], back_pages[k])
            /\ PageNumbers(create_pdf(front_pages, back_pages))
                   = PageNumbers(create_docx(front_pages, back_pages))

\* A document with front pages, the ellipsis page and back pages.
C15_Witness ==
    /\ pc = "created"
    /\ Len(front_pages) >= 2 /\ back_pages # <<>>
    /\ \E k \in 1..Len(document) : document[k].op = "ellipsis"

\* C19: with font size 9, every line of every page group is drawn on its
\* PDF page.
C19_EveryLineDrawn ==
    (pc = "created" /\ writer = "pdf") =>
        /\ \A k \in 1..Len(front_pages) :
               PagesOf(document)[k].lines = front_pages[k]
        /\ \A k \in 1..Len(back_pages) :
               PagesOf(document)[Len(front_pages) + 1 + k].lines = back_pages[k]

\* C18: on the same lines, comment characters and caps, the two writer
\* classes return the same front page groups and the same back page groups.
C18_BackendsPaginateAlike ==
    split_lines_for_pages("pdf", all_lines, comment_chars,
                          max_front_pages, max_back_pages)
    = split_lines_for_pages("docx", all_lines, comment_chars,
                            max_front_pages, max_back_pages)

----------------------------------------------------------------------------
(* Calls of the writers' line helpers on arbitrary arguments.               *)

MaxLineLen      == 3
MaxChars        == 2

Chars == {" ", "#", "x"}

\* The texts of at most n characters.
RECURSIVE Texts(_)
Texts(n) ==
    IF n = 0 THEN { <<>> }
    ELSE LET shorter == Texts(n - 1)
         IN  shorter \cup { <<c>> \o s : c \in Chars, s \in shorter }

\* A writer in some state: the helpers are called on writers that hold
\* lines and caps of any kind.
WriterStates ==
    /\ writer \in {"pdf", "docx"}
    /\ all_lines \in { <<>>, <<CodeLine, BlankLine, CommentLine>> }
    /\ max_front_pages \in 0..1
    /\ max_back_pages \in 0..1

InitWrap ==
    /\ NoManual
    /\ pc = "idle"
    /\ WriterStates
    /\ comment_chars = DEFAULT_COMMENT_CHARS
    /\ arg_line \in Texts(MaxLineLen)
    /\ arg_max_chars \in 1..MaxChars
    /\ wrapped_lines = <<>> /\ is_blank = FALSE /\ is_comment = FALSE
    /\ NoPages /\ NoFs /\ NoRun

Wrap ==
    /\ pc = "idle"
    /\ wrapped_lines' = wrap_long_line(writer, arg_line, arg_max_chars)
    /\ pc' = "wrapped"
    /\ UNCHANGED <<manualVars, writerVars, pageVars, arg_line, arg_max_chars, is_blank,
                   is_comment, fsVars, runVars>>

NextWrap == Wrap

SpecWrap == InitWrap /\ [][NextWrap]_vars

CommentCharLists ==
    { <<>>, << <<"x", "#">>, <<"#", "#">> >>, DEFAULT_COMMENT_CHARS }

InitClassify ==
    /\ NoManual
    /\ pc = "idle"
    /\ WriterStates
    /\ comment_chars = DEFAULT_COMMENT_CHARS
    /\ NoCall /\ NoPages /\ NoFs /\ NoRun

\* One call of is_blank_line and one of is_comment_line, on any line and
\* any list of comment prefixes; calls follow one another.
Classify ==
    /\ \E l \in Texts(MaxLineLen), cc \in CommentCharLists :
        /\ arg_line' = l
        /\ comment_chars' = cc
        /\ is_blank' = is_blank_line(writer, l)
        /\ is_comment' = is_comment_line(writer, l, cc)
    /\ pc' = "classified"
    /\ UNCHANGED <<manualVars, writer, all_lines, max_front_pages, max_back_pages, pageVars,
                   arg_max_chars, wrapped_lines, fsVars, runVars>>

NextClassify == Classify

SpecClassify == InitClassify /\ [][NextClassify]_vars

----------------------------------------------------------------------------
(* Properties of the line helpers.                                          *)

CeilDiv(a, b) == (a + b - 1) \div b

FragmentsFit ==
    /\ \A k \in 1..Len(wrapped_lines) : Len(wrapped_lines[k]) <= arg_max_chars
    /\ Flatten(wrapped_lines) = arg_line

\* C3 as stated: ceil(L / max_chars) fragments, each of at most max_chars
\* characters, concatenating to the line, for every L >= 0.
C3_CeilFragments ==
    pc = "wrapped" =>
        /\ Len(wrapped_lines) = CeilDiv(Len(arg_line), arg_max_chars)
        /\ FragmentsFit

\* C3 amended: a line of length L >= 1 is wrapped into ceil(L / max_chars)
\* fragments and the empty line into one fragment, the empty line itself;
\* every fragment has at most max_chars characters and the fragments
\* concatenate to the line.
C3_CeilFragmentsOrOneEmpty ==
    pc = "wrapped" =>
        /\ Len(wrapped_lines) = IF arg_line = <<>> THEN 1
                                ELSE CeilDiv(Len(arg_line), arg_max_chars)
        /\ FragmentsFit

\* A line that is cut into full fragments and a shorter rest.
C3_Witness ==
    /\ pc = "wrapped"
    /\ Len(arg_line) > arg_max_chars
    /\ Len(wrapped_lines) >= 2
    /\ Len(wrapped_lines[Len(wrapped_lines)]) < arg_max_chars

\* The line without its leading whitespace starts with one of the prefixes.
StartsWithPrefixAfterWhitespace(l, cc) ==
    \E k \in 1..Len(cc), n \in 0..Len(l) :
        /\ \A j \in 1..n : l[j] \in Whitespace
        /\ n < Len(l) => l[n + 1] \notin Whitespace
        /\ n + Len(cc[k]) <= Len(l)
        /\ \A j \in 1..Len(cc[k]) : l[n + j] = cc[k][j]

\* C10: every call of is_blank_line answers whether the line holds only
\* whitespace, every call of is_comment_line whether the line without its
\* leading whitespace starts with one of comment_chars; the PDF and the DOCX
\* writer answer alike, whatever the writer's state and the calls before,
\* and the call leaves the writer's lines and caps as they were.
C10_ClassificationPure ==
    [][pc' = "classified" =>
        /\ is_blank' = OnlyWhitespace(arg_line')
        /\ is_comment' = StartsWithPrefixAfterWhitespace(arg_line', comment_chars')
        /\ PDFCodeWriter_is_blank_line(arg_line')
             = DOCXCodeWriter_is_blank_line(arg_line')
        /\ PDFCodeWriter_is_comment_line(arg_line', comment_chars')
             = DOCXCodeWriter_is_comment_line(arg_line', comment_chars')
        /\ UNCHANGED <<writer, all_lines, max_front_pages, max_back_pages>>]_vars

\* A non-empty line of whitespace classified blank, and an indented comment
\* classified a comment, by a writer that holds lines.
C10_Witness ==
    /\ pc = "classified"
    /\ all_lines # <<>>
    /\ \/ is_blank /\ arg_line # <<>>
       \/ is_comment /\ arg_line # <<>> /\ arg_line[1] \in Whitespace

----------------------------------------------------------------------------
(* A finder run on a directory tree.                                        *)

MaxEntries == 3

Names == { <<"a">>, <<".", "c">>, <<"a", "c">> }

\* An entry of the tree; a file carries what reading it gives (see
\* collect_code_lines), which the finder does not look at.
Entry(name, is_file, parent) ==
    [name |-> name, is_file |-> is_file, parent |-> parent,
     read |-> "ok", content |-> <<>>]

\* An entry can be added below the input directory or a directory of the
\* tree, under a name its siblings do not have.
CanAdd(t, e) ==
    /\ e.parent = 0 \/ (e.parent \in 1..Len(t) /\ ~t[e.parent].is_file)
    /\ \A k \in 1..Len(t) : t[k].parent = e.parent => t[k].name # e.name

RECURSIVE Trees(_)
Trees(n) ==
    IF n = 0 THEN { <<>> }
    ELSE LET smaller == Trees(n - 1)
         IN  smaller \cup
             { Append(t, Entry(x[1], x[2], x[3])) :
                 x \in { y \in Names \X BOOLEAN \X (0..(n - 1)) : TRUE },
                 t \in { u \in smaller : Len(u) = n - 1 } }

ValidTree(t) ==
    \A k \in 1..Len(t) : CanAdd(SubSeq(t, 1, k - 1), t[k])

ExtArgs == { <<>>, << <<"a">> >> }

ExcludeArgs ==
    { <<>>,
      << INDIR \o <<"/", "a">> >>,
      << INDIR \o <<"/", "a", "c">>, INDIR \o <<"/", "a", "/", "a", "/">> >> }

InitFind ==
    /\ NoManual
    /\ pc = "start"
    /\ tree \in { t \in Trees(MaxEntries) : ValidTree(t) }
    /\ \E a \in ExtArgs : exts = CodeFinder_init(a)
    /\ excludes \in ExcludeArgs
    /\ files = <<>>
    /\ base_dir = None
    /\ writer = "none" /\ all_lines = <<>> /\ comment_chars = DEFAULT_COMMENT_CHARS
    /\ max_front_pages = 0 /\ max_back_pages = 0
    /\ NoPages /\ NoCall /\ NoRun

Find ==
    /\ pc = "start"
    /\ files' = find(tree, exts, 0, excludes)
    /\ pc' = "found"
    /\ UNCHANGED <<manualVars, writerVars, pageVars, callVars, tree, exts, excludes, base_dir,
                   runVars>>

NextFind == Find

SpecFind == InitFind /\ [][NextFind]_vars

\* The entries on the way from the input directory down to entry n.
RECURSIVE Ancestry(_, _)
Ancestry(t, n) == IF n = 0 THEN {} ELSE {n} \cup Ancestry(t, t[n].parent)

\* The files the finder is to return.
Wanted ==
    { Path(tree, n) : n \in
        { k \in 1..Len(tree) :
            /\ tree[k].is_file
            /\ \E e \in 1..Len(exts) : endswith(tree[k].name, exts[e])
            /\ \A a \in Ancestry(tree, k) : Head(tree[a].name) # "."
            /\ \A x \in 1..Len(excludes) : ~IsPrefix(excludes[x], Path(tree, k)) } }

\* C4: find returns exactly the files below the input directory whose name
\* ends with a configured extension, with no name starting with '.' on the
\* way down and a path that starts with no exclude prefix, each once.
C4_FindExact ==
    pc = "found" =>
        /\ { files[k] : k \in 1..Len(files) } = Wanted
        /\ Len(files) = Cardinality(Wanted)

\* A run that returns a file from a subdirectory and leaves out a hidden
\* code file and a code file under an exclude prefix.
C4_Witness ==
    /\ pc = "found"
    /\ \E k \in 1..Len(tree) :
        tree[k].is_file /\ tree[k].parent # 0 /\ Path(tree, k) \in Wanted
    /\ \E k \in 1..Len(tree) :
        /\ tree[k].is_file /\ is_code(exts, tree[k].name)
        /\ Head(tree[k].name) = "."
    /\ excludes # <<>>

----------------------------------------------------------------------------
(* A writer collecting the lines of a list of files.                        *)

MaxFiles == 2

\* Raw lines as the file iterator yields them, and what files hold.
RawCode  == <<"x", " ", "\n">>
RawBlank == <<"\n">>
RawLong  == Run("x", WRAP_MAX_CHARS + 1) \o <<"\n">>
Contents == { <<>>, <<RawCode>>, <<RawBlank, RawCode>>, <<RawLong>> }

ReadOutcomes == {"ok", "open_fails", "read_fails"}

\* The directories of at most n files, each with its outcome and content.
RECURSIVE FlatTrees(_)
FlatTrees(n) ==
    IF n = 0 THEN { <<>> }
    ELSE LET smaller == FlatTrees(n - 1)
         IN  smaller \cup
             { Append(t, [name |-> x[1], is_file |-> TRUE, parent |-> 0,
                          read |-> x[2], content |-> x[3]]) :
                 x \in { y \in Names \X ReadOutcomes \X Contents : TRUE },
                 t \in { u \in smaller : Len(u) = n - 1 } }

InitCollect ==
    /\ NoManual
    /\ pc = "found"
    /\ tree \in { t \in FlatTrees(MaxFiles) : ValidTree(t) }
    /\ files = [k \in 1..Len(tree) |-> Path(tree, k)]
    /\ base_dir \in {None, INDIR}
    /\ exts = DEFAULT_EXTS /\ excludes = <<>>
    /\ writer \in {"pdf", "docx"}
    /\ all_lines = <<>>
    /\ comment_chars = DEFAULT_COMMENT_CHARS
    /\ max_front_pages = 1 /\ max_back_pages = 1
    /\ NoPages /\ NoCall /\ NoRun

Collect ==
    /\ pc = "found"
    /\ LET c == collect_code_lines(writer, tree, files, base_dir, all_lines)
       IN  /\ all_lines' = c.all_lines
           /\ raised' = c.raised
    /\ pc' = "collected"
    /\ UNCHANGED <<manualVars, writer, comment_chars, max_front_pages, max_back_pages, pageVars,
                   callVars, fsVars, docx_available, outfile, printed, outputs,
                   returned, exit_status>>

NextCollect == Collect

SpecCollect == InitCollect /\ [][NextCollect]_vars

\* What the files are to contribute, in list order: the header line, then
\* the file's lines, or one placeholder line when it cannot be read.
RECURSIVE ExpectedLines(_)
ExpectedLines(k) ==
    IF k > Len(files) THEN <<>>
    ELSE LET entry == EntryOf(tree, files[k])
         IN  << FILE_HEADER \o relative_path(files[k], base_dir) >>
             \o (IF entry.read = "ok" THEN ReadLines(writer, entry.content, <<>>)
                 ELSE << ERROR_HEADER \o ErrorText >>)
             \o ExpectedLines(k + 1)

\* C7: every file of the list is handled, in order; a file that cannot be
\* opened or read contributes its header line and one placeholder line,
\* and never ends the run.
C7_UnreadableNeverAborts ==
    pc = "collected" =>
        /\ ~raised
        /\ all_lines = ExpectedLines(1)

----------------------------------------------------------------------------
(* The command-line run: parse_args, main, and the end of the process.     *)

\* parse_args' defaults of --max_front_pages and --max_back_pages.
DEFAULT_MAX_FRONT_PAGES == 30
DEFAULT_MAX_BACK_PAGES  == 30

\* str.lower on the letters the file names hold.
LowerChar(c) ==
    CASE c = "D" -> "d" [] c = "O" -> "o" [] c = "C" -> "c" [] c = "X" -> "x"
      [] OTHER -> c

lower(s) == [k \in 1..Len(s) |-> LowerChar(s[k])]

DOCX_SUFFIX == <<".", "d", "o", "c", "x">>

is_docx(outfile_) == endswith(lower(outfile_), DOCX_SUFFIX)

NOT_INSTALLED == "Error: python-docx is not installed. Install it with: pip install python-docx"

OutFiles ==
    { <<"a", ".", "d", "o", "c", "x">>, <<"a", ".", "D", "O", "C", "X">>,
      <<"a", ".", "p", "d", "f">>, <<"d", "o", "c", "x">>,
      <<"a", ".", "d", "o", "c", "x", ".", "p", "d", "f">> }

MaxMainFiles == 1

InitMain ==
    /\ NoManual
    /\ pc = "start"
    /\ docx_available \in BOOLEAN
    /\ outfile \in OutFiles
    /\ tree \in { t \in FlatTrees(MaxMainFiles) : ValidTree(t) }
    /\ exts = DEFAULT_EXTS /\ excludes = <<>>
    /\ files = <<>> /\ base_dir = None
    /\ writer = "none" /\ all_lines = <<>>
    /\ comment_chars = DEFAULT_COMMENT_CHARS
    /\ max_front_pages = DEFAULT_MAX_FRONT_PAGES
    /\ max_back_pages = DEFAULT_MAX_BACK_PAGES
    /\ printed = <<>> /\ outputs = {} /\ raised = FALSE
    /\ returned = -1 /\ exit_status = -1
    /\ NoPages /\ NoCall

\* main(params) on one input directory: find the files, then either report
\* the missing library and return 1, or construct the writer, collect,
\* split, create the document and return 0; an exception of
\* collect_code_lines leaves main.
Main ==
    /\ pc = "start"
    /\ LET found == find(tree, exts, 0, excludes)
       IN  /\ files' = found
           /\ base_dir' = INDIR
           /\ IF is_docx(outfile) /\ ~docx_available
              THEN /\ printed' = Append(printed, NOT_INSTALLED)
                   /\ returned' = 1
                   /\ UNCHANGED <<writer, all_lines, pageVars, outputs, raised>>
              ELSE LET w == IF is_docx(outfile) THEN "docx" ELSE "pdf"
                       c == collect_code_lines(w, tree, found, INDIR, <<>>)
                       r == split_lines_for_pages(w, c.all_lines, comment_chars,
                                                  max_front_pages, max_back_pages)
                   IN  /\ writer' = w
                       /\ all_lines' = c.all_lines
                       /\ raised' = c.raised
                       /\ IF c.raised
                          THEN UNCHANGED <<pageVars, outputs, returned>>
                          ELSE /\ front_pages' = r.front_pages
                               /\ back_pages' = r.back_pages
                               /\ document' =
                                    IF w = "pdf"
                                    THEN create_pdf(r.front_pages, r.back_pages)
                                    ELSE create_docx(r.front_pages, r.back_pages)
                               /\ outputs' = outputs \cup {outfile}
                               /\ returned' = 0
                       /\ UNCHANGED printed
    /\ pc' = "returned"
    /\ UNCHANGED <<manualVars, comment_chars, max_front_pages, max_back_pages, callVars, tree,
                   exts, excludes, docx_available, outfile, exit_status>>

\* if __name__ == '__main__': cli_main() -- the value cli_main returns is
\* dropped, so the process ends with status 0 unless an exception ended it.
ExitStatus(raised_, returned_) == IF raised_ THEN 1 ELSE 0

Exit ==
    /\ pc = "returned"
    /\ exit_status' = ExitStatus(raised, returned)
    /\ pc' = "exited"
    /\ UNCHANGED <<manualVars, writerVars, pageVars, callVars, fsVars, docx_available, outfile,
                   printed, outputs, raised, returned>>

NextMain == Main \/ Exit

SpecMain == InitMain /\ [][NextMain]_vars

\* C8: with an output name ending in .docx (in any case) and python-docx
\* not importable, the run reports an error, constructs no writer, writes no
\* output file and ends with a non-zero exit status.
C8_DocxMissingExitsNonZero ==
    (pc = "exited" /\ is_docx(outfile) /\ ~docx_available) =>
        /\ printed # <<>>
        /\ writer = "none"
        /\ outputs = {}
        /\ exit_status # 0

----------------------------------------------------------------------------
(* The Markdown converter, create_manual_docx of src/generate_manual.py:    *)
(* the lines of the Markdown file become headings and paragraphs.           *)

\* str.replace(old, new): every occurrence of old, from the left.
RECURSIVE replace(_, _, _)
replace(s, old, new) ==
    IF s = <<>> THEN <<>>
    ELSE IF startswith(s, old)
    THEN new \o replace(SubSeq(s, Len(old) + 1, Len(s)), old, new)
    ELSE <<Head(s)>> \o replace(Tail(s), old, new)

\* str.replace(old, new, 1): the first occurrence of old only.
RECURSIVE replace_first(_, _, _)
replace_first(s, old, new) ==
    IF s = <<>> THEN <<>>
    ELSE IF startswith(s, old)
    THEN new \o SubSeq(s, Len(old) + 1, Len(s))
    ELSE <<Head(s)>> \o replace_first(Tail(s), old, new)

\* sep.join(parts)
RECURSIVE join(_, _)
join(parts, sep) ==
    IF parts = <<>> THEN <<>>
    ELSE IF Len(parts) = 1 THEN parts[1]
    ELSE parts[1] \o sep \o join(Tail(parts), sep)

\* The line prefixes the converter looks for.  The backquote of the fence
\* is written ~, and the five CJK characters of the image placeholder
\* prefix are written T, P, Z, W and a colon.
H0_PREFIX    == <<"#", " ">>
H1_PREFIX    == <<"#", "#", " ">>
H2_PREFIX    == <<"#", "#", "#", " ">>
FENCE        == <<"~", "~", "~">>
LIST_PREFIX  == <<"*", " ", " ", " ">>
IMAGE_PREFIX == <<"*", "*", "[", "T", "P", "Z", "W", ":">>
SEPARATOR    == <<"-", "-", "-">>

\* document.add_heading(text, level) and document.add_paragraph(text, style)
add_heading(text, level) ==
    [kind |-> "heading", level |-> level, style |-> "", text |-> text]

add_paragraph(text, style) ==
    [kind |-> "paragraph", level |-> -1, style |-> style, text |-> text]

\* A pending paragraph loses its lines.
Flush_drops_pending(doc, pending) == doc

\* if current_paragraph_lines: document.add_paragraph(" ".join(...))
Flush(doc, pending) ==
    IF pending # <<>> THEN Append(doc, add_paragraph(join(pending, <<" ">>), ""))
    ELSE doc

\* The branch of a heading line.
HeadingStep(line, prefix, level, st) ==
    [in_code_block |-> st.in_code_block,
     current_paragraph_lines |-> <<>>,
     document |-> Append(Flush(st.document, st.current_paragraph_lines),
                         add_heading(strip(replace(line, prefix, <<>>)), level))]

\* The body of the loop over the lines: st holds in_code_block,
\* current_paragraph_lines and the document.
ManualStep(line, st) ==
    LET flushed == Flush(st.document, st.current_paragraph_lines)
    IN
    IF startswith(line, H0_PREFIX) THEN HeadingStep(line, H0_PREFIX, 0, st)
    ELSE IF startswith(line, H1_PREFIX) THEN HeadingStep(line, H1_PREFIX, 1, st)
    ELSE IF startswith(line, H2_PREFIX) THEN HeadingStep(line, H2_PREFIX, 2, st)
    ELSE IF startswith(line, FENCE)
    THEN [in_code_block |-> ~st.in_code_block,
          current_paragraph_lines |-> <<>>,
          document |-> IF st.in_code_block
                       THEN Append(flushed, add_paragraph(<<>>, ""))
                       ELSE flushed]
    ELSE IF st.in_code_block
    THEN [in_code_block |-> st.in_code_block,
          current_paragraph_lines |-> st.current_paragraph_lines,
          document |-> Append(st.document, add_paragraph(line, ""))]
    ELSE IF startswith(line, LIST_PREFIX)
    THEN [in_code_block |-> st.in_code_block,
          current_paragraph_lines |-> <<>>,
          document |-> Append(flushed,
                              add_paragraph(replace_first(line, LIST_PREFIX, <<"-", " ">>),
                                            "List Bullet"))]
    ELSE IF startswith(line, IMAGE_PREFIX)
    THEN [in_code_block |-> st.in_code_block,
          current_paragraph_lines |-> <<>>,
          document |-> Append(flushed, add_paragraph(line, ""))]
    ELSE IF strip(line) = SEPARATOR
    THEN [in_code_block |-> st.in_code_block,
          current_paragraph_lines |-> <<>>,
          document |-> Append(flushed, add_paragraph(<<>>, ""))]
    ELSE IF strip(line) # <<>>
    THEN [in_code_block |-> st.in_code_block,
          current_paragraph_lines |-> Append(st.current_paragraph_lines, strip(line)),
          document |-> st.document]
    ELSE [in_code_block |-> st.in_code_block,
          current_paragraph_lines |-> <<>>,
          document |-> flushed]

----------------------------------------------------------------------------
(* The converter run: the file is read, its lines are taken one by one,    *)
(* the document is saved.                                                   *)

MaxManualLines == 3

\* Lines of a Markdown file: headings of the three levels, a fence, a list
\* item, an image placeholder, a separator, regular lines, a blank line.
ManualLineTexts ==
    { <<"#", " ", "T">>, <<"#", "#", " ", "T">>, <<"#", "#", "#", " ", "T">>,
      FENCE, LIST_PREFIX \o <<"i">>, IMAGE_PREFIX \o <<"x">>, SEPARATOR,
      <<"a">>, <<" ", "b", " ">>, <<"#", "c">>, <<>> }

\* content.split("\n") of a file of at most n lines: at least one line.
RECURSIVE ManualFiles(_)
ManualFiles(n) ==
    IF n = 1 THEN { <<l>> : l \in ManualLineTexts }
    ELSE LET shorter == ManualFiles(n - 1)
         IN  shorter \cup { Append(f, l) : f \in shorter, l \in ManualLineTexts }

InitManual ==
    /\ pc = "manual_read"
    /\ manual_lines \in ManualFiles(MaxManualLines)
    /\ manual_pos = 1
    /\ in_code_block = FALSE
    /\ current_paragraph_lines = <<>>
    /\ manual_document = <<>>
    /\ writer = "none" /\ all_lines = <<>> /\ comment_chars = DEFAULT_COMMENT_CHARS
    /\ max_front_pages = 0 /\ max_back_pages = 0
    /\ NoPages /\ NoCall /\ NoFs /\ NoRun

\* One pass through the loop, for line in lines.
ManualLine ==
    /\ pc = "manual_read"
    /\ manual_pos <= Len(manual_lines)
    /\ LET st == ManualStep(manual_lines[manual_pos],
                            [in_code_block |-> in_code_block,
                             current_paragraph_lines |-> current_paragraph_lines,
                             document |-> manual_document])
       IN  /\ in_code_block' = st.in_code_block
           /\ current_paragraph_lines' = st.current_paragraph_lines
           /\ manual_document' = st.document
    /\ manual_pos' = manual_pos + 1
    /\ UNCHANGED <<pc, manual_lines, writerVars, pageVars, callVars, fsVars, runVars>>

\* After the loop: the remaining paragraph lines are added, the document
\* is saved.
ManualSave ==
    /\ pc = "manual_read"
    /\ manual_pos > Len(manual_lines)
    /\ manual_document' = Flush(manual_document, current_paragraph_lines)
    /\ pc' = "manual_saved"
    /\ UNCHANGED <<manual_lines, manual_pos, in_code_block, current_paragraph_lines,
                   writerVars, pageVars, callVars, fsVars, runVars>>

NextManual == ManualLine \/ ManualSave

SpecManual == InitManual /\ [][NextManual]_vars

----------------------------------------------------------------------------
(* Properties of the converter run.                                         *)

\* The fences among the first n lines.
FencesBefore(n) ==
    Cardinality({k \in 1..n : startswith(manual_lines[k], FENCE)})

\* Line k lies between an opening fence and its closing fence.
BetweenFences(k) ==
    /\ ~startswith(manual_lines[k], FENCE)
    /\ FencesBefore(k - 1) % 2 = 1

\* The loop is about to take line k.
Taking(k) == pc = "manual_read" /\ manual_pos = k /\ k <= Len(manual_lines)

\* C16: a line between an opening fence and its closing fence is emitted
\* as it is, as a plain paragraph of its own, whatever it starts with: it
\* becomes neither a heading nor a list item.
C16_CodeLinesVerbatim ==
    [][\A k \in 1..Len(manual_lines) :
          (Taking(k) /\ BetweenFences(k)) =>
              manual_document' =
                  Append(manual_document, add_paragraph(manual_lines[k], ""))]_vars

\* Line k is a regular line: not blank, outside the code blocks, and none
\* of heading, fence, list item, image placeholder and separator.
RegularLine(k) ==
    /\ strip(manual_lines[k]) # <<>>
    /\ FencesBefore(k - 1) % 2 = 0
    /\ ~startswith(manual_lines[k], FENCE)
    /\ ~startswith(manual_lines[k], H0_PREFIX)
    /\ ~startswith(manual_lines[k], H1_PREFIX)
    /\ ~startswith(manual_lines[k], H2_PREFIX)
    /\ ~startswith(manual_lines[k], LIST_PREFIX)
    /\ ~startswith(manual_lines[k], IMAGE_PREFIX)
    /\ strip(manual_lines[k]) # SEPARATOR

\* The pending lines, as the one paragraph they are flushed as.
PendingParagraph ==
    IF current_paragraph_lines # <<>>
    THEN << add_paragraph(join(current_paragraph_lines, <<" ">>), "") >>
    ELSE <<>>

\* The stripped regular lines among the first n lines, in input order.
RECURSIVE RegularTexts(_)
RegularTexts(n) ==
    IF n = 0 THEN <<>>
    ELSE IF RegularLine(n) THEN Append(RegularTexts(n - 1), strip(manual_lines[n]))
    ELSE RegularTexts(n - 1)

\* The regular lines that are pending or in a paragraph of the document
\* already: the last of the first n regular lines are the pending ones.
PendingAreLatest(n) ==
    LET texts == RegularTexts(n)
        p     == Len(current_paragraph_lines)
    IN  /\ p <= Len(texts)
        /\ SubSeq(texts, Len(texts) - p + 1, Len(texts)) = current_paragraph_lines

\* C17: no regular text is lost, duplicated or reordered.  No line is
\* pending inside a code block; a regular line is appended, stripped, to
\* the pending lines and emits nothing; every other line, and the end of
\* the input, first emits the pending lines as one paragraph, then its own
\* elements, and leaves no line pending; the pending lines are always the
\* latest regular lines of the input, in input order.
C17_NoTextLost ==
    /\ [](in_code_block => current_paragraph_lines = <<>>)
    /\ [](pc = "manual_read" => PendingAreLatest(manual_pos - 1))
    /\ [][\A k \in 1..Len(manual_lines) :
             Taking(k) =>
                 IF RegularLine(k)
                 THEN /\ manual_document' = manual_document
                      /\ current_paragraph_lines'
                             = Append(current_paragraph_lines, strip(manual_lines[k]))
                 ELSE /\ current_paragraph_lines' = <<>>
                      /\ IsPrefix(manual_document \o PendingParagraph, manual_document')]_vars
    /\ [][(pc = "manual_read" /\ manual_pos > Len(manual_lines)) =>
             manual_document' = manual_document \o PendingParagraph]_vars

\* Two regular lines have become one paragraph, emitted before the heading
\* that followed them.
C17_Witness ==
    /\ pc = "manual_saved"
    /\ Len(manual_lines) >= 3
    /\ RegularLine(1) /\ RegularLine(2)
    /\ manual_lines[1] # strip(manual_lines[1]) \/ manual_lines[2] # strip(manual_lines[2])
    /\ Len(manual_document) >= 2
    /\ manual_document[1].text
           = strip(manual_lines[1]) \o <<" ">> \o strip(manual_lines[2])
    /\ manual_document[2].kind = "heading"

====
